---- MODULE Spec2Model ----
(***************************************************************************)
(* Model of the CRUD backend: the HTTP handlers of main.py over the four   *)
(* document helpers of database.py and a MongoDB-like document store.      *)
(* Strings that the code parses (ObjectId strings, filter JSON, class and  *)
(* collection names) are sequences of one-character strings.               *)
(***************************************************************************)
EXTENDS Integers, Sequences, FiniteSets, TLC

VARIABLES
    db,           \* database.db is not None (DATABASE_URL and DATABASE_NAME set)
    schemas,      \* the classes of the schemas module
    collections,  \* db.list_collection_names()
    store,        \* collection name -> sequence of documents (natural order)
    clock,        \* last reading of datetime.now(timezone.utc)
    oids,         \* number of ObjectIds the driver has generated
    get,          \* the get_collection_documents request in flight
    resp,         \* the last HTTP exchange: request, response, driver calls
    born,         \* history: ObjectId -> time read for created_at at creation
    tainted,      \* history: ObjectIds updated with a dict carrying created_at
    deleted       \* history: <<collection, ObjectId>> pairs deleted with 200

vars == <<db, schemas, collections, store, clock, oids, get, resp,
          born, tainted, deleted>>

----------------------------------------------------------------------------
(* Bounds *)

MaxClock == 1
MaxOids == 2
MaxPage == 1001

(* Program constants *)

LimitCap == 1000
DefaultLimit == 100
OidLen == 24

----------------------------------------------------------------------------
(* Strings *)

S_user  == <<"u", "s", "e", "r">>
S_User  == <<"U", "s", "e", "r">>
S_log   == <<"l", "o", "g">>

CollNames == {S_user, S_log}

LowerOf == [c \in {"U", "u", "s", "e", "r", "l", "o", "g"} |->
              IF c = "U" THEN "u" ELSE c]

\* str.lower() on a class name
lower(name) == [i \in 1..Len(name) |-> LowerOf[name[i]]]

HexChars == <<"0", "1", "2", "3", "4", "5", "6", "7", "8", "9",
              "a", "b", "c", "d", "e", "f">>
UpperHex == <<"0", "1", "2", "3", "4", "5", "6", "7", "8", "9",
              "A", "B", "C", "D", "E", "F">>

HexCharSet == {HexChars[i] : i \in 1..16} \cup {UpperHex[i] : i \in 1..16}

HexValOf == [ch \in HexCharSet |->
               (CHOOSE i \in 1..16 : HexChars[i] = ch \/ UpperHex[i] = ch) - 1]

IsHex(ch) == ch \in HexCharSet

HexVal(ch) == HexValOf[ch]

----------------------------------------------------------------------------
(* bson.ObjectId: twelve bytes, written here as OidLen hex digits *)

\* (fault) the length of doc_id is not checked
ObjectIdOk_anylen(s) == \A i \in 1..Len(s) : IsHex(s[i])

\* ObjectId(doc_id) raises InvalidId unless doc_id is OidLen hex digits
ObjectIdOk(s) == Len(s) = OidLen /\ \A i \in 1..Len(s) : IsHex(s[i])

\* ObjectId(doc_id): the bytes the hex digits spell, upper or lower case
ObjectId(s) == [kind |-> "oid", v |-> [i \in 1..Len(s) |-> HexVal(s[i])]]

\* the n-th ObjectId generated by the driver on insert
NewObjectId(n) ==
    [kind |-> "oid",
     v |-> [i \in 1..OidLen |->
              IF OidLen - i > 5 THEN 0 ELSE (n \div (16 ^ (OidLen - i))) % 16]]

\* a JSON scalar used as _id in a request body
JsonId(x) == [kind |-> "json", v |-> <<x>>]

\* str(value) of an _id: lower-case hex digits (decimal digits of a scalar)
str(id) == [i \in 1..Len(id.v) |-> HexChars[id.v[i] + 1]]

----------------------------------------------------------------------------
(* Documents: functions from a set of keys to values *)

EmptyDict == [k \in {} |-> 0]

Put(d, key, val) ==
    [k \in DOMAIN d \cup {key} |-> IF k = key THEN val ELSE d[k]]

\* dict.update / the effect of {"$set": u} on a document
Override(d, u) ==
    [k \in DOMAIN d \cup DOMAIN u |-> IF k \in DOMAIN u THEN u[k] ELSE d[k]]

\* MongoDB equality filter: every filter key is present with that value
Matches(doc, flt) ==
    \A k \in DOMAIN flt : k \in DOMAIN doc /\ doc[k] = flt[k]

MatchIdx(docs, flt) == {i \in 1..Len(docs) : Matches(docs[i], flt)}

Min(a, b) == IF a <= b THEN a ELSE b
Max(a, b) == IF a >= b THEN a ELSE b
Abs(a) == IF a < 0 THEN 0 - a ELSE a

SetMin(S) == CHOOSE x \in S : \A y \in S : x <= y

RemoveAt(docs, i) ==
    [j \in 1..(Len(docs) - 1) |-> IF j < i THEN docs[j] ELSE docs[j + 1]]

\* the matching documents, in natural order
Select(docs, flt) == SelectSeq(docs, LAMBDA doc : Matches(doc, flt))

----------------------------------------------------------------------------
(* The driver calls the repository makes *)

\* collection.insert_one(doc): _id generated when absent, unique per collection
insert_one(st, c, doc, n) ==
    LET d == IF "_id" \in DOMAIN doc THEN doc
             ELSE Put(doc, "_id", NewObjectId(n))
        dup == \E i \in 1..Len(st[c]) : st[c][i]["_id"] = d["_id"]
    IN [raised |-> dup,
        store |-> IF dup THEN st ELSE [st EXCEPT ![c] = Append(@, d)],
        inserted_id |-> d["_id"],
        generated |-> ~("_id" \in DOMAIN doc)]

\* collection.update_one(filter, {"$set": u}): first match only, _id immutable
update_one(st, c, flt, u) ==
    LET idx == MatchIdx(st[c], flt)
    IN IF idx = {}
       THEN [raised |-> FALSE, store |-> st, matched_count |-> 0,
             modified_count |-> 0]
       ELSE LET i == SetMin(idx)
                old == st[c][i]
                new == Override(old, u)
            IN IF "_id" \in DOMAIN u /\ u["_id"] # old["_id"]
               THEN [raised |-> TRUE, store |-> st, matched_count |-> 0,
                     modified_count |-> 0]
               ELSE [raised |-> FALSE,
                     store |-> [st EXCEPT ![c][i] = new],
                     matched_count |-> 1,
                     modified_count |-> IF new = old THEN 0 ELSE 1]

\* (fault) the first document of the collection goes, whichever matched
delete_one_first(st, c, flt) ==
    IF MatchIdx(st[c], flt) = {}
    THEN [store |-> st, deleted_count |-> 0]
    ELSE [store |-> [st EXCEPT ![c] = RemoveAt(@, 1)], deleted_count |-> 1]

\* collection.delete_one(filter): first match only
delete_one(st, c, flt) ==
    LET idx == MatchIdx(st[c], flt)
    IN IF idx = {}
       THEN [store |-> st, deleted_count |-> 0]
       ELSE [store |-> [st EXCEPT ![c] = RemoveAt(@, SetMin(idx))],
             deleted_count |-> 1]

\* collection.count_documents(filter)
count_documents(st, c, flt) == Cardinality(MatchIdx(st[c], flt))

\* (fault) the skip is not applied
find_limit_noskip(st, c, flt, skip, limit) ==
    LET m == Select(st[c], flt)
        n == IF limit = 0 THEN Len(m) ELSE Min(Abs(limit), Len(m))
    IN SubSeq(m, 1, n)

\* list(collection.find(filter).skip(skip).limit(limit)) for skip >= 0:
\* limit 0 is no limit, a negative limit is abs(limit) in a single batch
find_skip_limit(st, c, flt, skip, limit) ==
    LET m == Select(st[c], flt)
        rest == Max(Len(m) - skip, 0)
        n == IF limit = 0 THEN rest ELSE Min(Abs(limit), rest)
    IN [j \in 1..n |-> m[skip + j]]

----------------------------------------------------------------------------
(* database.py *)

\* database.create_document(collection_name, data)
create_doc(d, st, c, data, t1, t2, n) ==
    LET data_dict == Put(Put(data, "created_at", t1), "updated_at", t2)
        result == insert_one(st, c, data_dict, n)
    IN IF ~d
       THEN [raised |-> TRUE, store |-> st, id |-> <<>>, called |-> FALSE,
             inserted_id |-> JsonId(0), generated |-> FALSE]
       ELSE [raised |-> result.raised, store |-> result.store,
             id |-> str(result.inserted_id), called |-> TRUE,
             inserted_id |-> result.inserted_id,
             generated |-> result.generated]

\* (fault) an update stamps created_at as well
update_doc_restamp(d, st, c, flt, update_data, t) ==
    LET update_dict == Put(Put(update_data, "updated_at", t), "created_at", t)
        result == update_one(st, c, flt, update_dict)
    IN IF ~d
       THEN [raised |-> TRUE, store |-> st, called |-> FALSE,
             success |-> FALSE, matched |-> FALSE]
       ELSE [raised |-> result.raised, store |-> result.store,
             called |-> TRUE,
             success |-> result.modified_count > 0,
             matched |-> result.matched_count > 0]

\* database.update_document(collection_name, filter_dict, update_data)
update_doc(d, st, c, flt, update_data, t) ==
    LET update_dict == Put(update_data, "updated_at", t)
        result == update_one(st, c, flt, update_dict)
    IN IF ~d
       THEN [raised |-> TRUE, store |-> st, called |-> FALSE,
             success |-> FALSE, matched |-> FALSE]
       ELSE [raised |-> result.raised, store |-> result.store,
             called |-> TRUE,
             success |-> result.modified_count > 0,
             matched |-> result.matched_count > 0]

\* database.delete_document(collection_name, filter_dict)
delete_doc(d, st, c, flt) ==
    LET result == delete_one(st, c, flt)
    IN IF ~d
       THEN [raised |-> TRUE, store |-> st, called |-> FALSE,
             success |-> FALSE]
       ELSE [raised |-> FALSE, store |-> result.store, called |-> TRUE,
             success |-> result.deleted_count > 0]

----------------------------------------------------------------------------
(* json.loads on the filter query parameter.  The grammar covered is a     *)
(* single digit, or a flat object of one-letter string keys and digits.    *)

Digits == {"0", "1", "2", "3", "4", "5", "6", "7", "8", "9"}
KeyLetters == {"a", "b"}
Quote == "\""

At(s, p) == IF p \in 1..Len(s) THEN s[p] ELSE "EOF"

RECURSIVE ParseMembers(_, _, _)
ParseMembers(s, p, acc) ==
    IF At(s, p) = Quote /\ At(s, p + 1) \in KeyLetters /\ At(s, p + 2) = Quote
       /\ At(s, p + 3) = ":" /\ At(s, p + 4) \in Digits
    THEN LET acc2 == Put(acc, s[p + 1], HexVal(s[p + 4]))
         IN IF At(s, p + 5) = "}" /\ p + 5 = Len(s)
            THEN [ok |-> TRUE, isdict |-> TRUE, val |-> acc2]
            ELSE IF At(s, p + 5) = ","
            THEN ParseMembers(s, p + 6, acc2)
            ELSE [ok |-> FALSE, isdict |-> FALSE, val |-> EmptyDict]
    ELSE [ok |-> FALSE, isdict |-> FALSE, val |-> EmptyDict]

\* (fault) an opening brace is taken for an empty object
json_loads_lenient(s) ==
    IF Len(s) = 1 /\ s[1] \in Digits
    THEN [ok |-> TRUE, isdict |-> FALSE, val |-> EmptyDict]
    ELSE IF At(s, 1) = "{"
    THEN [ok |-> TRUE, isdict |-> TRUE, val |-> EmptyDict]
    ELSE [ok |-> FALSE, isdict |-> FALSE, val |-> EmptyDict]

\* json.loads(filter): ok is FALSE where JSONDecodeError is raised
json_loads(s) ==
    IF Len(s) = 1 /\ s[1] \in Digits
    THEN [ok |-> TRUE, isdict |-> FALSE, val |-> EmptyDict]
    ELSE IF Len(s) = 2 /\ s[1] = "{" /\ s[2] = "}"
    THEN [ok |-> TRUE, isdict |-> TRUE, val |-> EmptyDict]
    ELSE IF At(s, 1) = "{"
    THEN ParseMembers(s, 2, EmptyDict)
    ELSE [ok |-> FALSE, isdict |-> FALSE, val |-> EmptyDict]

----------------------------------------------------------------------------
(* Responses *)

NoFilter == [present |-> FALSE, text |-> <<>>]
Filter(text) == [present |-> TRUE, text |-> text]

\* what a handler produced: exc is the exception leaving the try body
Out(exc, status, detail, calls, st) ==
    [exc |-> exc, status |-> status, detail |-> detail, calls |-> calls,
     store |-> st, id |-> <<>>, documents |-> <<>>, total |-> 0, limit |-> 0]

\* raise HTTPException(status_code, detail) inside the try body
Raise(status, detail, calls, st) == Out("HTTPException", status, detail, calls, st)

\* any other exception raised inside the try body
Fail(calls, st) == Out("Exception", 0, "", calls, st)

\* return {"ok": True, ...}
Return(calls, st) == Out("none", 200, "ok", calls, st)

\* except HTTPException: raise / except Exception: raise HTTPException(500)
except_reraise(out, detail) ==
    IF out.exc = "Exception"
    THEN [out EXCEPT !.exc = "HTTPException", !.status = 500, !.detail = detail]
    ELSE out

\* except Exception: raise HTTPException(500), HTTPException being an Exception
except_all(out, detail) ==
    IF out.exc # "none"
    THEN [out EXCEPT !.exc = "HTTPException", !.status = 500, !.detail = detail]
    ELSE out

----------------------------------------------------------------------------
(* main.py: validation *)

\* (fault) every document validates
model_validate_any(cls, document) == TRUE

\* schema_class.model_validate(document): required fields are present
model_validate(cls, document) == cls.required \subseteq DOMAIN document

\* the keys of schema_map: the lower-cased class names
schema_keys(sch) == {lower(cls.name) : cls \in sch}

\* schema_map[collection_name]
schema_of(sch, name) == CHOOSE cls \in sch : lower(cls.name) = name

\* validate_document(collection_name, document)
validate_document(sch, name, document) ==
    IF name \notin schema_keys(sch)
    THEN [valid |-> TRUE, checked |-> FALSE]
    ELSE [valid |-> model_validate(schema_of(sch, name), document),
          checked |-> TRUE]

----------------------------------------------------------------------------
(* main.py: the handlers, as functions of the request and the store *)

\* GET /api/database/collections
list_collections(d, cols, st) ==
    except_all(
        IF ~d
        THEN Raise(503, "Database not connected", <<>>, st)
        ELSE Return(<<"list_collection_names">>
                      \o [i \in 1..Cardinality(cols) |-> "count_documents"], st),
        "Error listing collections")

\* POST /api/database/collections/{collection_name}/create
create_document(d, sch, st, name, document, t1, t2, n) ==
    except_reraise(
        IF ~d
        THEN Raise(503, "Database not connected", <<>>, st)
        ELSE IF ~validate_document(sch, name, document).valid
        THEN Raise(400, "Validation failed", <<>>, st)
        ELSE LET r == create_doc(d, st, name, document, t1, t2, n)
             IN IF r.raised
                THEN Fail(<<"insert_one">>, r.store)
                ELSE [Return(<<"insert_one">>, r.store) EXCEPT !.id = r.id],
        "Error creating document")

\* PUT /api/database/collections/{collection_name}/{doc_id}
update_document(d, sch, st, name, doc_id, document, t) ==
    except_reraise(
        IF ~d
        THEN Raise(503, "Database not connected", <<>>, st)
        ELSE IF ~validate_document(sch, name, document).valid
        THEN Raise(400, "Validation failed", <<>>, st)
        ELSE IF ~ObjectIdOk(doc_id)
        THEN Raise(400, "Invalid document ID format", <<>>, st)
        ELSE LET r == update_doc(d, st, name, [k \in {"_id"} |-> ObjectId(doc_id)],
                                 document, t)
             IN IF r.raised
                THEN Fail(<<"update_one">>, r.store)
                ELSE IF ~r.success
                THEN Raise(404, "Document not found", <<"update_one">>, r.store)
                ELSE Return(<<"update_one">>, r.store),
        "Error updating document")

\* (fault) delete_document without its db check
delete_document_unguarded(d, st, name, doc_id) ==
    except_reraise(
        IF ~ObjectIdOk(doc_id)
        THEN Raise(400, "Invalid document ID format", <<>>, st)
        ELSE LET r == delete_doc(d, st, name, [k \in {"_id"} |-> ObjectId(doc_id)])
             IN IF r.raised
                THEN Fail(<<>>, r.store)
                ELSE IF ~r.success
                THEN Raise(404, "Document not found", <<"delete_one">>, r.store)
                ELSE Return(<<"delete_one">>, r.store),
        "Error deleting document")

\* DELETE /api/database/collections/{collection_name}/{doc_id}
delete_document(d, st, name, doc_id) ==
    except_reraise(
        IF ~d
        THEN Raise(503, "Database not connected", <<>>, st)
        ELSE IF ~ObjectIdOk(doc_id)
        THEN Raise(400, "Invalid document ID format", <<>>, st)
        ELSE LET r == delete_doc(d, st, name, [k \in {"_id"} |-> ObjectId(doc_id)])
             IN IF r.raised
                THEN Fail(<<>>, r.store)
                ELSE IF ~r.success
                THEN Raise(404, "Document not found", <<"delete_one">>, r.store)
                ELSE Return(<<"delete_one">>, r.store),
        "Error deleting document")

\* the filter_dict get_collection_documents fetches with (main.py 160-166)
filter_dict_of(filter) ==
    IF filter.present /\ filter.text # <<>>
    THEN json_loads(filter.text)
    ELSE [ok |-> TRUE, isdict |-> TRUE, val |-> EmptyDict]

\* get_collection_documents up to the parsed filter (main.py 146-166);
\* status 0 means the handler goes on to fetch
get_collection_begin(d, cols, st, name, limit, skip, filter) ==
    except_reraise(
        IF ~d
        THEN Raise(503, "Database not connected", <<>>, st)
        ELSE IF name \notin cols
        THEN Raise(404, "Collection not found", <<"list_collection_names">>, st)
        ELSE IF ~filter_dict_of(filter).ok
        THEN Raise(400, "Invalid filter JSON", <<"list_collection_names">>, st)
        ELSE [Out("none", 0, "", <<"list_collection_names">>, st)
                EXCEPT !.limit = Min(limit, LimitCap)],
        "Error fetching documents")

\* get_collection_documents: total = collection.count_documents(filter_dict)
get_collection_count(st, g) ==
    except_reraise(
        IF ~filter_dict_of(g.filter).isdict
        THEN Fail(Append(g.calls, "count_documents"), st)
        ELSE [Out("none", 0, "", Append(g.calls, "count_documents"), st)
                EXCEPT !.total = count_documents(st, g.name,
                                                 filter_dict_of(g.filter).val)],
        "Error fetching documents")

\* doc["_id"] = str(doc["_id"]) for every fetched document
stringify(documents) ==
    [i \in 1..Len(documents) |->
        IF "_id" \in DOMAIN documents[i]
        THEN Put(documents[i], "_id",
                 [kind |-> "str", v |-> str(documents[i]["_id"])])
        ELSE documents[i]]


\* get_collection_documents: the find call and the response (main.py 171-185)
get_collection_find(st, g) ==
    except_reraise(
        IF g.skip < 0
        THEN Fail(g.calls, st)
        ELSE [Return(Append(g.calls, "find"), st) EXCEPT
                !.documents = stringify(find_skip_limit(st, g.name,
                                  filter_dict_of(g.filter).val, g.skip, g.limit)),
                !.total = g.total,
                !.limit = g.limit],
        "Error fetching documents")

----------------------------------------------------------------------------
(* Requests *)

UserClass == [name |-> S_User, required |-> {"a"}]

\* the schemas module as shipped (no class) and with one model defined
SchemaModules == {{}, {UserClass}}

Hex24(n) == str(NewObjectId(n))

GoodIds == {Hex24(n) : n \in 1..MaxOids}
BadShort == SubSeq(Hex24(1), 1, OidLen - 1)
BadLong  == Hex24(1) \o <<"0">>
BadDigit == [Hex24(1) EXCEPT ![1] = "g"]
BadIds == {BadShort, BadLong, BadDigit}
DocIds == GoodIds \cup BadIds

B_empty   == EmptyDict
B_a       == [k \in {"a", "updated_at"} |-> IF k = "a" THEN 1 ELSE 0]
B_created == [k \in {"created_at"} |-> 9]
B_id      == [k \in {"_id"} |-> JsonId(7)]

Bodies == {B_empty, B_a, B_created, B_id}

F_empty  == <<"{", "}">>
F_a1     == <<"{", Quote, "a", Quote, ":", "1", "}">>
F_cut    == <<"{", Quote, "a", Quote, ":", "1">>
F_word   == <<"a", ":", "1">>
F_number == <<"1">>

GoodFilters == {NoFilter, Filter(<<>>), Filter(F_empty), Filter(F_a1),
                Filter(F_number)}
BadFilters == {Filter(F_cut), Filter(F_word)}
Filters == GoodFilters \cup BadFilters

ReadLimits == {0 - 1, 0, 1, 2, LimitCap + 1}
Limits == ReadLimits \cup {DefaultLimit}
Skips == {0 - 1, 0, 1}

----------------------------------------------------------------------------
(* State *)

IdleGet == [pc |-> "idle", name |-> <<>>, reqlimit |-> 0, limit |-> 0,
            skip |-> 0, filter |-> NoFilter, total |-> 0, calls |-> <<>>,
            wrote |-> FALSE]

\* the document a PUT or DELETE addresses is in the collection
Found(st, name, doc_id) ==
    /\ ObjectIdOk(doc_id)
    /\ \E i \in 1..Len(st[name]) : st[name][i]["_id"] = ObjectId(doc_id)

\* the last response sent: which endpoint, its status code and detail, and
\* whether the document the request addressed was there when it arrived
Exchange(op, out, found) ==
    [op |-> op, status |-> out.status, detail |-> out.detail, found |-> found]

EmptyStore == [c \in CollNames |-> <<>>]

\* the state after start-up: db is set at import from the environment, the
\* schemas module is whatever the deployment defines, the store is empty
InitWith(dbs, modules, times) ==
    /\ db \in dbs
    /\ schemas \in modules
    /\ collections = {}
    /\ store = EmptyStore
    /\ clock \in times
    /\ oids = 0
    /\ get = IdleGet
    /\ resp = [op |-> "none", status |-> 0, detail |-> "", found |-> FALSE]
    /\ born = {}
    /\ tainted = {}
    /\ deleted = {}

Init == InitWith(BOOLEAN, SchemaModules, 0..MaxClock)

\* a write by another request reaches the get in flight after its count
Disturb(name, st) ==
    IF get.pc = "counted" /\ get.name = name /\ st # store
    THEN [get EXCEPT !.wrote = TRUE]
    ELSE get

ListCollections ==
    /\ resp' = Exchange("list", list_collections(db, collections, store), FALSE)
    /\ UNCHANGED <<db, schemas, collections, store, clock, oids, get,
                   born, tainted, deleted>>

CreateDocument(name, document) ==
    /\ oids < MaxOids
    /\ \E t1 \in clock..MaxClock : \E t2 \in t1..MaxClock :
       \E out \in {create_document(db, schemas, store, name, document,
                                   t1, t2, oids + 1)} :
         LET called == out.calls # <<>>
             inserted == out.status = 200
             newid == IF "_id" \in DOMAIN document THEN document["_id"]
                      ELSE NewObjectId(oids + 1)
         IN /\ resp' = Exchange("create", out, FALSE)
            /\ store' = out.store
            /\ collections' = IF inserted THEN collections \cup {name}
                              ELSE collections
            /\ clock' = IF called THEN t2 ELSE clock
            /\ oids' = IF called /\ "_id" \notin DOMAIN document
                       THEN oids + 1 ELSE oids
            /\ born' = IF inserted
                       THEN born \cup {[c |-> name, id |-> newid, t |-> t1]}
                       ELSE born
            /\ get' = Disturb(name, out.store)
    /\ UNCHANGED <<db, schemas, tainted, deleted>>

UpdateDocument(name, doc_id, document) ==
    /\ \E t \in clock..MaxClock :
       \E out \in {update_document(db, schemas, store, name, doc_id,
                                   document, t)} :
         LET called == out.calls # <<>>
             hit == called /\ out.status \in {200, 404}
                    /\ Found(store, name, doc_id)
         IN /\ resp' = Exchange("update", out, Found(store, name, doc_id))
            /\ store' = out.store
            /\ clock' = IF called THEN t ELSE clock
            /\ tainted' = IF hit /\ "created_at" \in DOMAIN document
                          THEN tainted \cup {<<name, ObjectId(doc_id)>>}
                          ELSE tainted
            /\ get' = Disturb(name, out.store)
    /\ UNCHANGED <<db, schemas, collections, oids, born, deleted>>

DeleteDocument(name, doc_id) ==
    /\ \E out \in {delete_document(db, store, name, doc_id)} :
          /\ resp' = Exchange("delete", out, Found(store, name, doc_id))
          /\ store' = out.store
          /\ deleted' = IF out.status = 200
                        THEN deleted \cup {<<name, ObjectId(doc_id)>>}
                        ELSE deleted
          /\ get' = Disturb(name, out.store)
    /\ UNCHANGED <<db, schemas, collections, clock, oids, born, tainted>>

GetRequest(name, limit, skip, filter) ==
    /\ get.pc = "idle"
    /\ \E out \in {get_collection_begin(db, collections, store, name, limit,
                                        skip, filter)} :
          IF out.exc = "none"
          THEN /\ get' = [pc |-> "checked", name |-> name, reqlimit |-> limit,
                          limit |-> out.limit, skip |-> skip,
                          filter |-> filter, total |-> 0, calls |-> out.calls,
                          wrote |-> FALSE]
               /\ resp' = resp
          ELSE /\ get' = IdleGet
               /\ resp' = Exchange("get", out, FALSE)
    /\ UNCHANGED <<db, schemas, collections, store, clock, oids,
                   born, tainted, deleted>>

GetCount ==
    /\ get.pc = "checked"
    /\ \E out \in {get_collection_count(store, get)} :
          IF out.exc = "none"
          THEN /\ get' = [get EXCEPT !.pc = "counted", !.total = out.total,
                                     !.calls = out.calls]
               /\ resp' = resp
          ELSE /\ get' = IdleGet
               /\ resp' = Exchange("get", out, FALSE)
    /\ UNCHANGED <<db, schemas, collections, store, clock, oids,
                   born, tainted, deleted>>

GetFind ==
    /\ get.pc = "counted"
    /\ get' = IdleGet
    /\ resp' = Exchange("get", get_collection_find(store, get), FALSE)
    /\ UNCHANGED <<db, schemas, collections, store, clock, oids,
                   born, tainted, deleted>>

Writes(names, ids, bodies) ==
    \/ \E name \in names, document \in bodies :
         CreateDocument(name, document)
    \/ \E name \in names, doc_id \in ids, document \in bodies :
         UpdateDocument(name, doc_id, document)
    \/ \E name \in names, doc_id \in ids :
         DeleteDocument(name, doc_id)

Reads(names, limits, skips, filters) ==
    \/ \E name \in names, limit \in limits, skip \in skips,
          filter \in filters :
         GetRequest(name, limit, skip, filter)
    \/ GetCount
    \/ GetFind

Next ==
    \/ ListCollections
    \/ Writes(CollNames, DocIds, Bodies)
    \/ Reads(CollNames, Limits, Skips, Filters)

\* every endpoint with every input; the specifications below are this one
\* with the deployment, the clock and the requests narrowed
Spec == Init /\ [][Next]_vars

\* the write endpoints over two collections, at one clock reading
NextFrame ==
    \/ ListCollections
    \/ Writes(CollNames, GoodIds \cup {BadShort}, {B_empty, B_a, B_id})

SpecFrame == InitWith(BOOLEAN, SchemaModules, {MaxClock}) /\ [][NextFrame]_vars

\* the write endpoints on one collection while the clock advances
NextTime == Writes({S_log}, GoodIds, {B_empty, B_a, B_created})

SpecTime == InitWith({TRUE}, {{}}, {0}) /\ [][NextTime]_vars

\* readers of one collection with every paging input, beside writers
NextRead ==
    \/ Writes({S_log}, GoodIds, {B_empty, B_a})
    \/ Reads({S_log}, ReadLimits, Skips, Filters)

SpecRead == InitWith(BOOLEAN, {{}}, {MaxClock}) /\ [][NextRead]_vars

\* a collection already holding many documents, and readers only
BulkDocs(n) == [i \in 1..n |-> [k \in {"_id"} |-> NewObjectId(i)]]

PageSizes == {0, 1, LimitCap - 1, LimitCap, MaxPage}
PageLimits == {0 - (LimitCap + 1), 0 - 1, 0, 1, DefaultLimit, LimitCap,
               LimitCap + 1}

InitPage ==
    /\ db = TRUE
    /\ schemas = {}
    /\ collections = {S_log}
    /\ \E n \in PageSizes : store = [EmptyStore EXCEPT ![S_log] = BulkDocs(n)]
    /\ clock = 0
    /\ oids = MaxPage
    /\ get = IdleGet
    /\ resp = [op |-> "none", status |-> 0, detail |-> "", found |-> FALSE]
    /\ born = {}
    /\ tainted = {}
    /\ deleted = {}

NextPage == Reads({S_log}, PageLimits, {0, 1}, {NoFilter})

SpecPage == InitPage /\ [][NextPage]_vars

----------------------------------------------------------------------------
(* Properties.  A handler is a function of the request and of the state it  *)
(* finds; the invariants below apply it, in every reachable state, to every *)
(* request of the input sets.                                               *)

Range(seq) == {seq[i] : i \in 1..Len(seq)}

Times == clock..MaxClock

Refused(out, status, detail) ==
    /\ out.exc = "HTTPException"
    /\ out.status = status
    /\ out.detail = detail

\* C1: with db None, GET {name}, POST create, PUT and DELETE answer 503
\* 'Database not connected' to every request, no driver call is made and the
\* store stays as it is
C1_Unconfigured503 ==
    ~db =>
      /\ \A name \in CollNames, limit \in Limits, skip \in Skips,
            filter \in Filters :
           LET out == get_collection_begin(db, collections, store, name,
                                           limit, skip, filter)
           IN Refused(out, 503, "Database not connected")
              /\ out.calls = <<>> /\ out.store = store
      /\ \A name \in CollNames, document \in Bodies :
           /\ \A t1 \in Times, t2 \in Times :
                LET out == create_document(db, schemas, store, name, document,
                                           t1, t2, oids + 1)
                IN Refused(out, 503, "Database not connected")
                   /\ out.calls = <<>> /\ out.store = store
           /\ \A doc_id \in DocIds, t \in Times :
                LET out == update_document(db, schemas, store, name, doc_id,
                                           document, t)
                IN Refused(out, 503, "Database not connected")
                   /\ out.calls = <<>> /\ out.store = store
      /\ \A name \in CollNames, doc_id \in DocIds :
           LET out == delete_document(db, store, name, doc_id)
           IN Refused(out, 503, "Database not connected")
              /\ out.calls = <<>> /\ out.store = store
      /\ resp.op \in {"get", "create", "update", "delete"} => resp.status = 503
      /\ get.pc = "idle"
      /\ store = EmptyStore

C1_Witness == ~db /\ resp.op = "delete" /\ resp.status = 503

\* C2: with db None, GET /api/database/collections answers 503 'Database not
\* connected'
C2_ListUnconfigured503 ==
    (~db /\ resp.op = "list") =>
        (resp.status = 503 /\ resp.detail = "Database not connected")

\* C3: with db configured, a PUT with a valid body or a DELETE whose id is no
\* ObjectId string answers 400 'Invalid document ID format' and changes no
\* document
C3_InvalidId400 ==
    db =>
      \A name \in CollNames, doc_id \in BadIds :
        /\ \A document \in Bodies, t \in Times :
             validate_document(schemas, name, document).valid =>
               LET out == update_document(db, schemas, store, name, doc_id,
                                          document, t)
               IN Refused(out, 400, "Invalid document ID format")
                  /\ out.calls = <<>> /\ out.store = store
        /\ LET out == delete_document(db, store, name, doc_id)
           IN Refused(out, 400, "Invalid document ID format")
              /\ out.calls = <<>> /\ out.store = store

C3_Witness ==
    /\ db
    /\ resp.op \in {"update", "delete"}
    /\ resp.status = 400
    /\ resp.detail = "Invalid document ID format"
    /\ \E c \in CollNames : Len(store[c]) > 0

\* C4: with db configured and the collection existing, a GET whose non-empty
\* filter is not JSON answers 400 'Invalid filter JSON', and neither
\* count_documents nor find is called
C4_BadFilter400 ==
    db =>
      \A name \in collections, limit \in Limits, skip \in Skips,
         filter \in BadFilters :
        LET out == get_collection_begin(db, collections, store, name, limit,
                                        skip, filter)
        IN Refused(out, 400, "Invalid filter JSON")
           /\ "count_documents" \notin Range(out.calls)
           /\ "find" \notin Range(out.calls)

C4_Witness ==
    /\ db
    /\ resp.op = "get"
    /\ resp.status = 400
    /\ resp.detail = "Invalid filter JSON"
    /\ get.pc = "idle"
    /\ Len(store[S_log]) > 0

\* C5: a successful GET returns at most 1000 documents and reports a limit
\* of at most 1000, whatever the limit parameter and the collection size
C5_AtMostCap ==
    get.pc = "counted" =>
      LET out == get_collection_find(store, get)
      IN out.status = 200 =>
           (Len(out.documents) <= LimitCap /\ out.limit <= LimitCap)

C7_NotFoundOnlyIfAbsent ==
    (resp.op = "update" /\ resp.status = 404) => ~resp.found

\* C8: a DELETE with a valid ObjectId removes exactly the document with that
\* _id and nothing else; with no such document it answers 404 and changes
\* nothing; an id deleted once is answered 404 from then on
C8_DeleteExactlyOne ==
    db =>
      /\ \A name \in CollNames, doc_id \in GoodIds :
           LET out == delete_document(db, store, name, doc_id)
               hit == {i \in 1..Len(store[name]) :
                         store[name][i]["_id"] = ObjectId(doc_id)}
           IN IF hit = {}
              THEN Refused(out, 404, "Document not found")
                   /\ out.store = store
              ELSE /\ out.status = 200
                   /\ Cardinality(hit) = 1
                   /\ out.store[name] =
                        SelectSeq(store[name],
                                  LAMBDA doc : doc["_id"] # ObjectId(doc_id))
                   /\ \A c \in CollNames \ {name} : out.store[c] = store[c]
      /\ \A gone \in deleted :
           delete_document(db, store, gone[1], str(gone[2])).status = 404

C8_Witness ==
    /\ db
    /\ deleted # {}
    /\ resp.op = "delete"
    /\ resp.status = 404
    /\ \E c \in CollNames : Len(store[c]) > 1

\* the stored documents a creation record speaks of
DocsOf(b) == {i \in 1..Len(store[b.c]) : store[b.c][i]["_id"] = b.id}

\* C9 as stated: every document inserted by create_document has created_at
\* and updated_at, created_at is the time of its creation, and
\* updated_at >= created_at
C9_TimestampsAsStated ==
    \A b \in born : \A i \in DocsOf(b) :
      LET doc == store[b.c][i]
      IN /\ {"created_at", "updated_at"} \subseteq DOMAIN doc
         /\ doc["created_at"] = b.t
         /\ doc["updated_at"] >= doc["created_at"]

\* C9 amended: every document inserted by create_document has created_at
\* and updated_at, and updated_at is no earlier than its creation; created_at
\* is the time of its creation and updated_at >= created_at as long as no
\* update whose dict carries created_at has matched it
C9_Timestamps ==
    \A b \in born : \A i \in DocsOf(b) :
      LET doc == store[b.c][i]
      IN /\ {"created_at", "updated_at"} \subseteq DOMAIN doc
         /\ doc["updated_at"] >= b.t
         /\ <<b.c, b.id>> \notin tainted =>
              /\ doc["created_at"] = b.t
              /\ doc["updated_at"] >= doc["created_at"]

C9_Witness ==
    /\ resp.op = "update"
    /\ resp.status = 200
    /\ \E b \in born : \E i \in DocsOf(b) :
         /\ <<b.c, b.id>> \notin tainted
         /\ store[b.c][i]["updated_at"] > b.t
    /\ tainted # {}

\* C10 as stated: the response a GET is about to send has no more documents
\* than its total, and min(limit, max(total - skip, 0)) of them for 0 < limit
C10_ReadConsistentAsStated ==
    get.pc = "counted" =>
      LET out == get_collection_find(store, get)
      IN out.status = 200 =>
           /\ Len(out.documents) <= out.total
           /\ out.limit > 0 =>
                Len(out.documents) = Min(out.limit, Max(out.total - get.skip, 0))

\* C10 amended: the same, for a GET during which no other request changed
\* the collection between its count_documents and its find
C10_ReadConsistent ==
    (get.pc = "counted" /\ ~get.wrote) =>
      LET out == get_collection_find(store, get)
      IN out.status = 200 =>
           /\ Len(out.documents) <= out.total
           /\ out.limit > 0 =>
                Len(out.documents) = Min(out.limit, Max(out.total - get.skip, 0))

C10_Witness ==
    /\ get.pc = "counted"
    /\ ~get.wrote
    /\ get.total = 2
    /\ get.skip = 1
    /\ get.limit = 1
    /\ Len(get_collection_find(store, get).documents) = 1

====
